---- MODULE Spec2Model ----
(***************************************************************************)
(* The Elasticsearch / OpenSearch benchmark: scripts/benchmark_combined.py *)
(* (load workers, the two backend runs, calculate_stats, the results       *)
(* artifact) followed by scripts/generate_report.py (the comparison rows   *)
(* and the summary rows of the report).                                    *)
(*                                                                         *)
(* Numbers.  time.time() is an integer count of clock ticks; a latency is  *)
(* (end - start) * 1000 as in run_query.  The float quotients of           *)
(* calculate_stats and of the report (error_rate, avg_latency,             *)
(* requests_per_second, the overall error rate) are exact fractions        *)
(* <<numerator, denominator>> in lowest terms.  The "hits" field of a      *)
(* successful record is never read by either script and is left out.       *)
(***************************************************************************)
EXTENDS Integers, Sequences, FiniteSets, TLC

\* ------------------------------------------------------------------ bounds
CatalogSize == 2     \* how many of the catalog's queries the model runs
MaxClients == 2      \* NUM_CLIENTS is drawn from 1..MaxClients
MaxDuration == 1     \* TEST_DURATION is drawn from 0..MaxDuration
MaxPasses == 2       \* one backend run starts at most this many catalog passes
MaxClock == 2        \* the clock stops advancing here

\* --------------------------------------------------------------- constants
GREEN == "green"
RED == "red"
NEUTRAL == "neutral"

QueryNames ==
    << "company-name-search", "country-filter-search", "industry-search",
       "complex-search", "industry-aggregation" >>

queries == SubSeq(QueryNames, 1, CatalogSize)

Clusters == {"Elasticsearch", "OpenSearch"}

VARIABLES
    TEST_DURATION,          \* configured duration, in clock ticks
    NUM_CLIENTS,            \* configured number of workers per backend
    now,                    \* time.time()
    pc,                     \* position of the main script, then of the report script
    wpc,                    \* wpc[b][w]: position of worker w of backend b
    start_time,             \* start_time[b][w] of run_benchmark_worker
    idx,                    \* idx[b][w]: position of the for loop in the catalog
    call_start,             \* call_start[b][w]: start_time of run_query
    results,                \* results[b][w]: the worker's local list
    collected,              \* collected[b]: futures as_completed has yielded
    elasticsearch_results,
    opensearch_results,
    elasticsearch_stats,
    opensearch_stats,
    artifact,               \* combined_benchmark_results.json
    report                  \* the rows of benchmark_report.md

vars ==
    << TEST_DURATION, NUM_CLIENTS, now, pc, wpc, start_time, idx, call_start,
       results, collected, elasticsearch_results, opensearch_results,
       elasticsearch_stats, opensearch_stats, artifact, report >>

config == << TEST_DURATION, NUM_CLIENTS >>
workerVars == << wpc, start_time, idx, call_start, results >>
mergedVars == << elasticsearch_results, opensearch_results >>
outputVars == << elasticsearch_stats, opensearch_stats, artifact, report >>

Workers == 1..NUM_CLIENTS

\* ----------------------------------------------------------------- helpers
Range(s) == {s[i] : i \in 1..Len(s)}

RECURSIVE SumSeq(_)
SumSeq(s) == IF s = << >> THEN 0 ELSE Head(s) + SumSeq(Tail(s))

RECURSIVE GCD(_, _)
GCD(a, b) == IF b = 0 THEN a ELSE GCD(b, a % b)

\* n / d as a float quotient, d > 0, n >= 0
Frac(n, d) == LET g == GCD(n, d) IN << n \div g, d \div g >>

FracLess(x, y) == x[1] * y[2] < y[1] * x[2]

FracAdd(x, y) == Frac(x[1] * y[2] + y[1] * x[2], x[2] * y[2])

RECURSIVE FracSum(_)
FracSum(s) == IF s = << >> THEN << 0, 1 >> ELSE FracAdd(Head(s), FracSum(Tail(s)))

EmptyMap == [q \in {} |-> 0]

ResultsOf(b) ==
    IF b = "Elasticsearch" THEN elasticsearch_results ELSE opensearch_results

\* --------------------------------------------------------- outcome records
SuccessRecord(b, q, latency) ==
    [cluster |-> b, query |-> q, success |-> TRUE, latency |-> latency]

FailureRecord(b, q) ==
    [cluster |-> b, query |-> q, success |-> FALSE, error |-> "error"]

\* ------------------------------------------------------------------- Init
Init ==
    /\ TEST_DURATION \in 0..MaxDuration
    /\ NUM_CLIENTS \in 1..MaxClients
    /\ now = 0
    /\ pc = << "Elasticsearch", "submit" >>
    /\ wpc = [b \in Clusters |-> [w \in Workers |-> "unsubmitted"]]
    /\ start_time = [b \in Clusters |-> [w \in Workers |-> 0]]
    /\ idx = [b \in Clusters |-> [w \in Workers |-> 1]]
    /\ call_start = [b \in Clusters |-> [w \in Workers |-> 0]]
    /\ results = [b \in Clusters |-> [w \in Workers |-> << >>]]
    /\ collected = [b \in Clusters |-> {}]
    /\ elasticsearch_results = << >>
    /\ opensearch_results = << >>
    /\ elasticsearch_stats = EmptyMap
    /\ opensearch_stats = EmptyMap
    /\ artifact = EmptyMap
    /\ report = << >>

\* ------------------------------------------------------------ load worker
Running(b, w) == wpc[b][w] \in {"check", "query", "call"}

Terminated(b, w) == wpc[b][w] \in {"returned", "raised"}

\* The clock advances while some worker can read it.
Tick ==
    /\ now < MaxClock
    /\ \E b \in Clusters : \E w \in Workers : Running(b, w)
    /\ now' = now + 1
    /\ UNCHANGED << config, pc, workerVars, collected, mergedVars, outputVars >>

\* run_benchmark_worker: results = [], start_time = time.time()
WorkerStart(b, w) ==
    /\ wpc[b][w] = "submitted"
    /\ wpc' = [wpc EXCEPT ![b][w] = "check"]
    /\ start_time' = [start_time EXCEPT ![b][w] = now]
    /\ results' = [results EXCEPT ![b][w] = << >>]
    /\ UNCHANGED << config, now, pc, idx, call_start, collected, mergedVars, outputVars >>

PassesStarted(b, w) == (Len(results[b][w]) + CatalogSize - 1) \div CatalogSize

\* the passes a backend run may start are shared out among its workers
PassLimit == MaxPasses \div NUM_CLIENTS

\* (variant: a pass is also started when the elapsed time equals the duration)
WorkerCheckInclusive(b, w) ==
    /\ wpc[b][w] = "check"
    /\ IF now - start_time[b][w] <= TEST_DURATION
       THEN /\ PassesStarted(b, w) < PassLimit
            /\ wpc' = [wpc EXCEPT ![b][w] = "query"]
            /\ idx' = [idx EXCEPT ![b][w] = 1]
            /\ UNCHANGED start_time
       ELSE /\ wpc' = [wpc EXCEPT ![b][w] = "returned"]
            /\ idx' = [idx EXCEPT ![b][w] = 1]
            /\ start_time' = [start_time EXCEPT ![b][w] = 0]
    /\ UNCHANGED << config, now, pc, call_start, results, collected,
                    mergedVars, outputVars >>

\* while time.time() - start_time < TEST_DURATION: ... ; return results
\* (a worker that has left run_benchmark_worker has no local variables:
\* they are put back to their initial values)
WorkerCheck(b, w) ==
    /\ wpc[b][w] = "check"
    /\ IF now - start_time[b][w] < TEST_DURATION
       THEN /\ PassesStarted(b, w) < PassLimit
            /\ wpc' = [wpc EXCEPT ![b][w] = "query"]
            /\ idx' = [idx EXCEPT ![b][w] = 1]
            /\ UNCHANGED start_time
       ELSE /\ wpc' = [wpc EXCEPT ![b][w] = "returned"]
            /\ idx' = [idx EXCEPT ![b][w] = 1]
            /\ start_time' = [start_time EXCEPT ![b][w] = 0]
    /\ UNCHANGED << config, now, pc, call_start, results, collected,
                    mergedVars, outputVars >>

\* run_query: start_time = time.time(), then client.search is called
QueryStart(b, w) ==
    /\ wpc[b][w] = "query"
    /\ wpc' = [wpc EXCEPT ![b][w] = "call"]
    /\ call_start' = [call_start EXCEPT ![b][w] = now]
    /\ UNCHANGED << config, now, pc, start_time, idx, results, collected,
                    mergedVars, outputVars >>

\* (variant: the deadline is also checked after every query)
AfterQueryTimed(b, w) ==
    IF now - start_time[b][w] >= TEST_DURATION THEN "returned"
    ELSE IF idx[b][w] < Len(queries) THEN "query" ELSE "check"

\* where the worker goes after results.append(result): the next query of
\* the for loop, or the while condition after the last one
AfterQuery(b, w) == IF idx[b][w] < Len(queries) THEN "query" ELSE "check"

Append1(b, w, rec) ==
    /\ results' = [results EXCEPT ![b][w] = Append(@, rec)]
    /\ wpc' = [wpc EXCEPT ![b][w] = AfterQuery(b, w)]
    /\ idx' = [idx EXCEPT ![b][w] = IF @ < Len(queries) THEN @ + 1 ELSE @]
    /\ call_start' = [call_start EXCEPT ![b][w] = 0]

\* run_query: client.search returned; the record carries the latency in ms
QueryReturn(b, w) ==
    /\ wpc[b][w] = "call"
    /\ Append1(b, w, SuccessRecord(b, queries[idx[b][w]],
                                   (now - call_start[b][w]) * 1000))
    /\ UNCHANGED << config, now, pc, start_time, collected, mergedVars, outputVars >>

\* (variant: a failed query is recorded and then run again)
QueryFailRetry(b, w) ==
    /\ wpc[b][w] = "call"
    /\ results' = [results EXCEPT ![b][w] = Append(@, FailureRecord(b, queries[idx[b][w]]))]
    /\ wpc' = [wpc EXCEPT ![b][w] = "query"]
    /\ call_start' = [call_start EXCEPT ![b][w] = 0]
    /\ UNCHANGED << config, now, pc, start_time, idx, collected, mergedVars, outputVars >>

\* run_query: an Exception inside the try block (client.search, or the
\* response lookup) becomes a failure record
QueryFail(b, w) ==
    /\ wpc[b][w] = "call"
    /\ Append1(b, w, FailureRecord(b, queries[idx[b][w]]))
    /\ UNCHANGED << config, now, pc, start_time, collected, mergedVars, outputVars >>

\* run_query: `except Exception` does not catch a BaseException raised in
\* client.search (SystemExit, KeyboardInterrupt, GeneratorExit); it leaves
\* run_query and run_benchmark_worker, and the future holds it
QueryRaise(b, w) ==
    /\ wpc[b][w] = "call"
    /\ wpc' = [wpc EXCEPT ![b][w] = "raised"]
    /\ start_time' = [start_time EXCEPT ![b][w] = 0]
    /\ idx' = [idx EXCEPT ![b][w] = 1]
    /\ call_start' = [call_start EXCEPT ![b][w] = 0]
    /\ UNCHANGED << config, now, pc, results, collected, mergedVars, outputVars >>

\* ----------------------------------------------------------- the two runs
AllWorkersDone(b) == \A w \in Workers : Terminated(b, w)

\* (variant: the workers of both backends are submitted at once)
SubmitBoth(b) ==
    /\ pc = << b, "submit" >>
    /\ pc' = << b, "collect" >>
    /\ wpc' = [c \in Clusters |->
                 IF c = b \/ b = "Elasticsearch" THEN [w \in Workers |-> "submitted"]
                 ELSE wpc[c]]
    /\ UNCHANGED << config, now, start_time, idx, call_start, results, collected,
                    mergedVars, outputVars >>

\* with ThreadPoolExecutor(max_workers=NUM_CLIENTS) as executor:
\*     futures = [executor.submit(run_benchmark_worker, ...) ...] ; results = []
Submit(b) ==
    /\ pc = << b, "submit" >>
    /\ pc' = << b, "collect" >>
    /\ wpc' = [wpc EXCEPT ![b] = [w \in Workers |-> "submitted"]]
    /\ UNCHANGED << config, now, start_time, idx, call_start, results, collected,
                    mergedVars, outputVars >>

\* (variant: results = future.result() instead of results.extend)
ExtendOverwrite(b, w) ==
    /\ elasticsearch_results' =
           IF b = "Elasticsearch" THEN results[b][w] ELSE elasticsearch_results
    /\ opensearch_results' =
           IF b = "OpenSearch" THEN results[b][w] ELSE opensearch_results

\* results.extend(future.result())
Extend(b, w) ==
    /\ elasticsearch_results' =
           IF b = "Elasticsearch" THEN elasticsearch_results \o results[b][w]
           ELSE elasticsearch_results
    /\ opensearch_results' =
           IF b = "OpenSearch" THEN opensearch_results \o results[b][w]
           ELSE opensearch_results

\* for future in as_completed(futures): results.extend(future.result())
\* as_completed yields the futures already finished in an arbitrary order
\* and the others as they finish.
Collect(b, w) ==
    /\ pc = << b, "collect" >>
    /\ w \notin collected[b]
    /\ wpc[b][w] = "returned"
    /\ collected' = [collected EXCEPT ![b] = @ \cup {w}]
    /\ Extend(b, w)
    /\ UNCHANGED << config, now, pc, workerVars, outputVars >>

\* future.result() raises the worker's exception in the main thread; the
\* with block is left through __exit__, whose shutdown(wait=True) waits
\* for the other workers
CollectRaised(b, w) ==
    /\ pc = << b, "collect" >>
    /\ w \notin collected[b]
    /\ wpc[b][w] = "raised"
    /\ pc' = << b, "unwind" >>
    /\ UNCHANGED << config, now, workerVars, collected, mergedVars, outputVars >>

\* the exception leaves the with block and ends the script: nothing is
\* written
Abort(b) ==
    /\ pc = << b, "unwind" >>
    /\ AllWorkersDone(b)
    /\ pc' = << "main", "aborted" >>
    /\ UNCHANGED << config, now, workerVars, collected, mergedVars, outputVars >>

\* (variant: the with block is left when the first future has been
\* collected, without waiting for the other workers)
FinishRunEarly(b) ==
    /\ pc = << b, "collect" >>
    /\ collected[b] # {}
    /\ pc' = IF b = "Elasticsearch" THEN << "OpenSearch", "submit" >>
             ELSE << "main", "stats" >>
    /\ UNCHANGED << config, now, workerVars, collected, mergedVars, outputVars >>

\* the for loop over as_completed ends and the with block is left
FinishRun(b) ==
    /\ pc = << b, "collect" >>
    /\ collected[b] = Workers
    /\ pc' = IF b = "Elasticsearch" THEN << "OpenSearch", "submit" >>
             ELSE << "main", "stats" >>
    /\ UNCHANGED << config, now, workerVars, collected, mergedVars, outputVars >>

\* --------------------------------------------------------- calculate_stats
Latencies(successful_results) ==
    [i \in 1..Len(successful_results) |-> successful_results[i].latency]

Sorted(latencies) == SortSeq(latencies, LAMBDA a, b : a < b)

\* (variant: the first latency recorded is taken for the least)
MinOfFirst(latencies) == latencies[1]

MinOf(latencies) == CHOOSE x \in Range(latencies) : \A y \in Range(latencies) : x <= y

MaxOf(latencies) == CHOOSE x \in Range(latencies) : \A y \in Range(latencies) : x >= y

\* (variant: the index is rounded up instead of down)
PercentileIndexCeil(len, percent) == (len * percent + 99) \div 100

\* int(len(latencies) * 0.95), int(len(latencies) * 0.99): percent is 95 or 99
PercentileIndex(len, percent) == (len * percent) \div 100

\* (variant: the latencies are indexed as recorded, without sorted())
PercentileUnsorted(latencies, percent) ==
    latencies[PercentileIndex(Len(latencies), percent) + 1]

\* Python lists are indexed from 0, sequences from 1
Percentile(latencies, percent) ==
    Sorted(latencies)[PercentileIndex(Len(latencies), percent) + 1]

\* (variant: the successes are counted instead of the failures)
ErrorRateOfSuccesses(total, successful) == Frac(successful * 100, total)

ErrorRate(total, successful) == Frac((total - successful) * 100, total)

\* (variant: a query gets an entry only if none of its records failed)
HasEntryWithoutFailure(query_results, successful_results) ==
    successful_results # << >> /\ successful_results = query_results

HasEntry(query_results, successful_results) == successful_results # << >>

\* (variant: every record of the query counts as served)
RequestsPerSecondOfAll(query_results, successful_results) ==
    Frac(Len(query_results), TEST_DURATION)

\* len(successful_results) / TEST_DURATION
RequestsPerSecond(query_results, successful_results) ==
    Frac(Len(successful_results), TEST_DURATION)

QueryStats(query_results, successful_results) ==
    LET latencies == Latencies(successful_results)
    IN  [ total_requests |-> Len(query_results),
          successful_requests |-> Len(successful_results),
          error_rate |-> ErrorRate(Len(query_results), Len(successful_results)),
          avg_latency |-> Frac(SumSeq(latencies), Len(latencies)),
          min_latency |-> MinOf(latencies),
          max_latency |-> MaxOf(latencies),
          p95_latency |-> Percentile(latencies, 95),
          p99_latency |-> Percentile(latencies, 99),
          requests_per_second |-> RequestsPerSecond(query_results, successful_results) ]

\* (variant: a query without a successful record gets an entry of counts
\* and error rate)
calculate_stats_counts(rs, cluster_name) ==
    LET cluster_results == SelectSeq(rs, LAMBDA r : r.cluster = cluster_name)
        query_results(q) == SelectSeq(cluster_results, LAMBDA r : r.query = q)
        successful_results(q) == SelectSeq(query_results(q), LAMBDA r : r.success)
        keys == {q \in Range(queries) : query_results(q) # << >>}
    IN  [q \in keys |->
            IF successful_results(q) # << >>
            THEN QueryStats(query_results(q), successful_results(q))
            ELSE [ total_requests |-> Len(query_results(q)),
                   successful_requests |-> 0,
                   error_rate |-> ErrorRate(Len(query_results(q)), 0) ]]

calculate_stats(rs, cluster_name) ==
    LET cluster_results == SelectSeq(rs, LAMBDA r : r.cluster = cluster_name)
        query_results(q) == SelectSeq(cluster_results, LAMBDA r : r.query = q)
        successful_results(q) == SelectSeq(query_results(q), LAMBDA r : r.success)
        keys == {q \in Range(queries) : HasEntry(query_results(q), successful_results(q))}
    IN  [q \in keys |-> QueryStats(query_results(q), successful_results(q))]

\* elasticsearch_stats = calculate_stats(...); opensearch_stats = calculate_stats(...)
ComputeStats ==
    /\ pc = << "main", "stats" >>
    /\ elasticsearch_stats' = calculate_stats(elasticsearch_results, "Elasticsearch")
    /\ opensearch_stats' = calculate_stats(opensearch_results, "OpenSearch")
    /\ pc' = << "main", "save" >>
    /\ UNCHANGED << config, now, workerVars, collected, mergedVars, artifact, report >>

\* json.dump of the run; the timestamp, the index name and the endpoints
\* are configuration strings that nothing computes with
SaveResults ==
    /\ pc = << "main", "save" >>
    /\ artifact' = [ test_duration |-> TEST_DURATION,
                     num_clients |-> NUM_CLIENTS,
                     elasticsearch_stats |-> elasticsearch_stats,
                     opensearch_stats |-> opensearch_stats,
                     raw_results |-> [ elasticsearch |-> elasticsearch_results,
                                       opensearch |-> opensearch_results ] ]
    /\ pc' = << "main", "saved" >>
    /\ UNCHANGED << config, now, workerVars, collected, mergedVars,
                    elasticsearch_stats, opensearch_stats, report >>

\* ------------------------------------------------------ generate_report.py
get_color_code(elasticsearch_value, opensearch_value, lower_is_better) ==
    IF FracLess(elasticsearch_value, opensearch_value)
    THEN (IF lower_is_better THEN GREEN ELSE RED)
    ELSE IF FracLess(opensearch_value, elasticsearch_value)
    THEN (IF lower_is_better THEN RED ELSE GREEN)
    ELSE NEUTRAL

\* f"{x:.2f}": x in hundredths, rounded to the nearest, ties to even
Fmt2(x) ==
    LET q == (x[1] * 100) \div x[2]
        r == (x[1] * 100) % x[2]
    IN  IF 2 * r < x[2] THEN q
        ELSE IF 2 * r > x[2] THEN q + 1
        ELSE IF q % 2 = 0 THEN q ELSE q + 1

\* the seven rows of a query, in the order of the two metrics.extend calls;
\* quotient: the statistic is a float quotient (a fraction of the model)
MetricTable ==
    << [label |-> "Average Latency", key |-> "avg_latency", unit |-> "ms",
        lower_is_better |-> TRUE, quotient |-> TRUE],
       [label |-> "Minimum Latency", key |-> "min_latency", unit |-> "ms",
        lower_is_better |-> TRUE, quotient |-> FALSE],
       [label |-> "Maximum Latency", key |-> "max_latency", unit |-> "ms",
        lower_is_better |-> TRUE, quotient |-> FALSE],
       [label |-> "95th Percentile Latency", key |-> "p95_latency", unit |-> "ms",
        lower_is_better |-> TRUE, quotient |-> FALSE],
       [label |-> "99th Percentile Latency", key |-> "p99_latency", unit |-> "ms",
        lower_is_better |-> TRUE, quotient |-> FALSE],
       [label |-> "Requests per Second", key |-> "requests_per_second", unit |-> "ops/sec",
        lower_is_better |-> FALSE, quotient |-> TRUE],
       [label |-> "Error Rate", key |-> "error_rate", unit |-> "%",
        lower_is_better |-> TRUE, quotient |-> TRUE] >>

MetricValue(query_metrics, t) ==
    IF t.quotient THEN query_metrics[t.key] ELSE << query_metrics[t.key], 1 >>

Row(metric, cluster, value, unit, status) ==
    [metric |-> metric, cluster |-> cluster, value |-> value, unit |-> unit,
     status |-> status]

\* if ess_metrics: metrics.extend([...])
ElasticsearchRows(query_name, ess_metrics) ==
    [i \in 1..Len(MetricTable) |->
        Row(<< query_name, MetricTable[i].label >>, "Elasticsearch",
            Fmt2(MetricValue(ess_metrics, MetricTable[i])), MetricTable[i].unit, NEUTRAL)]

\* if aws_metrics and ess_metrics: metrics.extend([...])
OpenSearchRows(query_name, ess_metrics, aws_metrics) ==
    [i \in 1..Len(MetricTable) |->
        Row(<< query_name, MetricTable[i].label >>, "OpenSearch",
            Fmt2(MetricValue(aws_metrics, MetricTable[i])), MetricTable[i].unit,
            get_color_code(MetricValue(ess_metrics, MetricTable[i]),
                           MetricValue(aws_metrics, MetricTable[i]),
                           MetricTable[i].lower_is_better))]

HasOpenSearchRows(query_name, ess_stats, aws_stats) ==
    query_name \in DOMAIN aws_stats /\ query_name \in DOMAIN ess_stats

\* one iteration of the loop over the query names
QueryRows(query_name, ess_stats, aws_stats) ==
    (IF query_name \in DOMAIN ess_stats
     THEN ElasticsearchRows(query_name, ess_stats[query_name]) ELSE << >>)
    \o
    (IF HasOpenSearchRows(query_name, ess_stats, aws_stats)
     THEN OpenSearchRows(query_name, ess_stats[query_name], aws_stats[query_name])
     ELSE << >>)

RECURSIVE AllQueryRows(_, _, _)
AllQueryRows(order, ess_stats, aws_stats) ==
    IF order = << >> THEN << >>
    ELSE QueryRows(Head(order), ess_stats, aws_stats)
         \o AllQueryRows(Tail(order), ess_stats, aws_stats)

\* the values of one field over stats.values()
FieldValues(stats, key) ==
    LET names == SelectSeq(queries, LAMBDA q : q \in DOMAIN stats)
    IN  [i \in 1..Len(names) |-> stats[names[i]][key]]

\* sum(error_rate) / len(stats); a fraction of fractions
OverallErrorRate(stats) ==
    LET total == FracSum(FieldValues(stats, "error_rate"))
    IN  Frac(total[1], total[2] * Cardinality(DOMAIN stats))

SummaryRows(a) ==
    LET es == a.elasticsearch_stats
        os == a.opensearch_stats
        ess_rps == FracSum(FieldValues(es, "requests_per_second"))
        aws_rps == FracSum(FieldValues(os, "requests_per_second"))
    IN  << Row(<< "", "Total Requests" >>, "Elasticsearch",
               SumSeq(FieldValues(es, "total_requests")), "requests", NEUTRAL),
           Row(<< "", "Successful Requests" >>, "Elasticsearch",
               SumSeq(FieldValues(es, "successful_requests")), "requests", NEUTRAL),
           Row(<< "", "Overall Error Rate" >>, "Elasticsearch",
               Fmt2(OverallErrorRate(es)), "%", NEUTRAL),
           Row(<< "", "Average Requests per Second" >>, "Elasticsearch",
               Fmt2(ess_rps), "ops/sec", NEUTRAL),
           Row(<< "", "Total Requests" >>, "OpenSearch",
               SumSeq(FieldValues(os, "total_requests")), "requests", NEUTRAL),
           Row(<< "", "Successful Requests" >>, "OpenSearch",
               SumSeq(FieldValues(os, "successful_requests")), "requests", NEUTRAL),
           Row(<< "", "Overall Error Rate" >>, "OpenSearch",
               Fmt2(OverallErrorRate(os)), "%",
               get_color_code(OverallErrorRate(es), OverallErrorRate(os), TRUE)),
           Row(<< "", "Average Requests per Second" >>, "OpenSearch",
               Fmt2(aws_rps), "ops/sec", get_color_code(ess_rps, aws_rps, FALSE)),
           Row(<< "", "Test Duration" >>, "Both", a.test_duration, "seconds", NEUTRAL),
           Row(<< "", "Number of Clients" >>, "Both", a.num_clients, "clients", NEUTRAL) >>

\* the orders in which a Python set of these names can be iterated
Orders(names) == {s \in [1..Cardinality(names) -> names] : Range(s) = names}

\* The whole report script.  The summary divides by len(stats) of each
\* backend: with an empty statistics map it ends in ZeroDivisionError
\* before the report file is opened.
GenerateReport ==
    /\ pc = << "main", "saved" >>
    /\ LET es == artifact.elasticsearch_stats
           os == artifact.opensearch_stats
       IN  IF DOMAIN es = {} \/ DOMAIN os = {}
           THEN /\ pc' = << "report", "failed" >>
                /\ UNCHANGED report
           ELSE /\ pc' = << "report", "written" >>
                /\ \E order \in Orders(DOMAIN es \cup DOMAIN os) :
                       report' = AllQueryRows(order, es, os) \o SummaryRows(artifact)
    /\ UNCHANGED << config, now, workerVars, collected, mergedVars,
                    elasticsearch_stats, opensearch_stats, artifact >>

\* ------------------------------------------------------- the specification
Next ==
    \/ Tick
    \/ \E b \in Clusters : Submit(b)
    \/ \E b \in Clusters : \E w \in Workers : WorkerStart(b, w)
    \/ \E b \in Clusters : \E w \in Workers : WorkerCheck(b, w)
    \/ \E b \in Clusters : \E w \in Workers : QueryStart(b, w)
    \/ \E b \in Clusters : \E w \in Workers : QueryReturn(b, w)
    \/ \E b \in Clusters : \E w \in Workers : QueryFail(b, w)
    \/ \E b \in Clusters : \E w \in Workers : QueryRaise(b, w)
    \/ \E b \in Clusters : \E w \in Workers : Collect(b, w)
    \/ \E b \in Clusters : \E w \in Workers : CollectRaised(b, w)
    \/ \E b \in Clusters : Abort(b)
    \/ \E b \in Clusters : FinishRun(b)
    \/ ComputeStats
    \/ SaveResults
    \/ GenerateReport

Spec == Init /\ [][Next]_vars

\* ------------------------------------------------- the clock never stops
\* The clock of Spec stops at MaxClock, where a worker that has used up its
\* passes may wait at the while condition for a deadline that never comes.
\* Here the clock has no last value: it advances whenever such a worker
\* waits for its deadline, until the deadline has passed.  (The ticks
\* that no waiting worker needs are left out to keep the state space small.)
TickLive ==
    /\ \E b \in Clusters : \E w \in Workers :
           /\ wpc[b][w] = "check"
           /\ now - start_time[b][w] < TEST_DURATION
           /\ PassesStarted(b, w) >= PassLimit
    /\ now' = now + 1
    /\ UNCHANGED << config, pc, workerVars, collected, mergedVars, outputVars >>

\* the steps of the worker threads: a thread that can run gets to run, and
\* a call that has been made comes back
WorkerSteps ==
    \E b \in Clusters : \E w \in Workers :
        \/ WorkerStart(b, w)
        \/ WorkerCheck(b, w)
        \/ QueryStart(b, w)
        \/ QueryReturn(b, w)
        \/ QueryFail(b, w)
        \/ QueryRaise(b, w)

\* the steps of the main thread of benchmark_combined.py
MainSteps ==
    \/ \E b \in Clusters : Submit(b)
    \/ \E b \in Clusters : \E w \in Workers : Collect(b, w)
    \/ \E b \in Clusters : \E w \in Workers : CollectRaised(b, w)
    \/ \E b \in Clusters : Abort(b)
    \/ \E b \in Clusters : FinishRun(b)
    \/ ComputeStats
    \/ SaveResults

NextLive ==
    \/ TickLive
    \/ \E b \in Clusters : Submit(b)
    \/ \E b \in Clusters : \E w \in Workers : WorkerStart(b, w)
    \/ \E b \in Clusters : \E w \in Workers : WorkerCheck(b, w)
    \/ \E b \in Clusters : \E w \in Workers : QueryStart(b, w)
    \/ \E b \in Clusters : \E w \in Workers : QueryReturn(b, w)
    \/ \E b \in Clusters : \E w \in Workers : QueryFail(b, w)
    \/ \E b \in Clusters : \E w \in Workers : QueryRaise(b, w)
    \/ \E b \in Clusters : \E w \in Workers : Collect(b, w)
    \/ \E b \in Clusters : \E w \in Workers : CollectRaised(b, w)
    \/ \E b \in Clusters : Abort(b)
    \/ \E b \in Clusters : FinishRun(b)
    \/ ComputeStats
    \/ SaveResults

\* the clock keeps advancing, every thread that can take a step takes one,
\* and the main thread goes on when it can
SpecLive ==
    /\ Init
    /\ [][NextLive]_vars
    /\ WF_vars(TickLive)
    /\ WF_vars(WorkerSteps)
    /\ WF_vars(MainSteps)

\* ------------------------------------------ calculate_stats on its own
\* calculate_stats applied to record collections larger than the runs of
\* Spec produce: the records of one query of one backend, collected under a
\* duration of 1..MaxStatsDuration seconds.  A collection is built failures
\* first and then successes of non-increasing latency, so that sorted() has
\* every list to reverse.
MaxSamples == 101
MaxStatsFailures == 1
MaxStatsDuration == 7

StatsLatencies == {0, 1000}

StatsInput == << "stats", "input" >>
StatsDone == << "stats", "done" >>

StatsRecords ==
    {FailureRecord("Elasticsearch", queries[1])}
        \cup {SuccessRecord("Elasticsearch", queries[1], l) : l \in StatsLatencies}

\* the place of a record in the order in which a collection is built
StatsOrder(rec) == IF rec.success THEN rec.latency ELSE 1000000

InitStats ==
    /\ TEST_DURATION \in 1..MaxStatsDuration
    /\ NUM_CLIENTS = 1
    /\ now = 0
    /\ pc = StatsInput
    /\ wpc = [b \in Clusters |-> [w \in Workers |-> "unsubmitted"]]
    /\ start_time = [b \in Clusters |-> [w \in Workers |-> 0]]
    /\ idx = [b \in Clusters |-> [w \in Workers |-> 1]]
    /\ call_start = [b \in Clusters |-> [w \in Workers |-> 0]]
    /\ results = [b \in Clusters |-> [w \in Workers |-> << >>]]
    /\ collected = [b \in Clusters |-> {}]
    /\ elasticsearch_results = << >>
    /\ opensearch_results = << >>
    /\ elasticsearch_stats = EmptyMap
    /\ opensearch_stats = EmptyMap
    /\ artifact = EmptyMap
    /\ report = << >>

\* elasticsearch_results.extend(...): one more record of the collection
StatsAdd(rec) ==
    /\ pc = StatsInput
    /\ LET rs == elasticsearch_results
           failures == Len(SelectSeq(rs, LAMBDA r : ~r.success))
       IN  /\ rs # << >> => StatsOrder(rec) <= StatsOrder(rs[Len(rs)])
           /\ IF rec.success
              THEN Len(rs) - failures < MaxSamples
              ELSE failures < MaxStatsFailures
    /\ elasticsearch_results' = Append(elasticsearch_results, rec)
    /\ UNCHANGED << config, now, pc, workerVars, collected, opensearch_results,
                    outputVars >>

\* elasticsearch_stats = calculate_stats(...); opensearch_stats = calculate_stats(...)
StatsApply ==
    /\ pc = StatsInput
    /\ elasticsearch_stats' = calculate_stats(elasticsearch_results, "Elasticsearch")
    /\ opensearch_stats' = calculate_stats(opensearch_results, "OpenSearch")
    /\ pc' = StatsDone
    /\ UNCHANGED << config, now, workerVars, collected, mergedVars, artifact, report >>

NextStats ==
    \/ \E rec \in StatsRecords : StatsAdd(rec)
    \/ StatsApply

SpecStats == InitStats /\ [][NextStats]_vars

\* ================================================================= claims
StatsOf(b) == IF b = "Elasticsearch" THEN elasticsearch_stats ELSE opensearch_stats

\* calculate_stats has been applied to both backends
StatsComputed == pc \in { << "main", "save" >>, << "main", "saved" >>,
                          << "report", "failed" >>, << "report", "written" >> }

CountOf(s, Test(_)) == Cardinality({i \in 1..Len(s) : Test(s[i])})

\* how many records of the workers of backend b pass Test
WorkersCount(b, Test(_)) ==
    Cardinality({p \in UNION {{<< w, i >> : i \in 1..Len(results[b][w])} : w \in Workers} :
                    Test(results[b][p[1]][p[2]])})

LatencyKeys ==
    {"avg_latency", "min_latency", "max_latency", "p95_latency", "p99_latency"}

\* ---- C1 (the claim as stated; the code violates it)
\* C1: a worker started with TEST_DURATION = 0 returns exactly one catalog pass:
\* len(catalog) records, one per catalog query.
C1_ZeroDurationOnePass ==
    \A b \in Clusters : \A w \in Workers :
        (TEST_DURATION = 0 /\ wpc[b][w] = "returned")
            => /\ Len(results[b][w]) = Len(queries)
               /\ \A i \in 1..Len(queries) : results[b][w][i].query = queries[i]

\* ---- C2 (the claim as stated; the code violates it)
\* C2: when a worker of a run has raised, the runner still completes (the script
\* is not aborted) and the merged collection of that run holds every record
\* of every worker of the run, those of the failed worker included.
C2_WorkerFailureTolerated ==
    \A b \in Clusters :
        ((\E w \in Workers : wpc[b][w] = "raised") /\ AllWorkersDone(b)
                /\ pc # << b, "collect" >> /\ pc # << b, "unwind" >>)
            => /\ pc # << "main", "aborted" >>
               /\ \A w \in Workers : \A i \in 1..Len(results[b][w]) :
                      CountOf(ResultsOf(b), LAMBDA r : r = results[b][w][i])
                          = WorkersCount(b, LAMBDA r : r = results[b][w][i])

\* ---- C3
AllFailed(b) ==
    /\ ResultsOf(b) # << >>
    /\ \A i \in 1..Len(ResultsOf(b)) : ~ResultsOf(b)[i].success

\* C3 as amended: for a backend whose every query execution fails,
\* calculate_stats returns the empty map: no catalog query has an entry, so
\* there is neither an error rate of 100 nor any latency field.
C3_AllFailedNoEntry ==
    \A b \in Clusters : (StatsComputed /\ AllFailed(b)) => DOMAIN StatsOf(b) = {}

\* statistics were computed for an OpenSearch run of at least one whole
\* pass in which every query failed
C3_witness ==
    /\ StatsComputed
    /\ AllFailed("OpenSearch")
    /\ Len(opensearch_results) >= Len(queries)

\* C3 as stated: every executed query of an all-failing backend has an
\* entry whose error rate is 100 and which has no latency field.
C3_AllFailedEntryOf100 ==
    \A b \in Clusters : (StatsComputed /\ AllFailed(b)) =>
        \A q \in {ResultsOf(b)[i].query : i \in 1..Len(ResultsOf(b))} :
            /\ q \in DOMAIN StatsOf(b)
            /\ StatsOf(b)[q].error_rate = << 100, 1 >>
            /\ DOMAIN StatsOf(b)[q] \cap LatencyKeys = {}

\* ---- C4 (the claim as stated; the code violates it)
ReportWritten == pc = << "report", "written" >>

\* the status written on the row of `cluster` for the metric
RowStatus(metric, cluster) ==
    report[CHOOSE i \in 1..Len(report) :
               report[i].metric = metric /\ report[i].cluster = cluster].status

\* the indicator of a backend whose value is `own` against `other`
Indicator(own, other, lower_is_better) ==
    IF own = other THEN NEUTRAL
    ELSE IF lower_is_better = FracLess(own, other) THEN GREEN
    ELSE RED

\* C4: in the written report, for every query that has statistics for both
\* backends and every metric, the row of each backend is green when that
\* backend's value is the better one (smaller for latency and error rate,
\* larger for requests per second), red when it is the worse one, and
\* neutral when the two values are equal.
C4_GreenMarksBetterBackend ==
    ReportWritten =>
        \A q \in DOMAIN artifact.elasticsearch_stats \cap DOMAIN artifact.opensearch_stats :
            \A t \in Range(MetricTable) :
                LET ev == MetricValue(artifact.elasticsearch_stats[q], t)
                    ov == MetricValue(artifact.opensearch_stats[q], t)
                IN  /\ RowStatus(<< q, t.label >>, "OpenSearch")
                          = Indicator(ov, ev, t.lower_is_better)
                    /\ RowStatus(<< q, t.label >>, "Elasticsearch")
                          = Indicator(ev, ov, t.lower_is_better)

\* ---- C5 (the claim as stated; the code violates it)
\* C5: in the written report, every query name that is a key of the
\* Elasticsearch or of the OpenSearch statistics map has metric rows.
C5_EveryQueryHasRows ==
    ReportWritten =>
        \A q \in DOMAIN artifact.elasticsearch_stats \cup DOMAIN artifact.opensearch_stats :
            \E i \in 1..Len(report) : report[i].metric[1] = q

\* ---- C6
\* C6: the records of a worker that has returned are a concatenation of complete
\* catalog passes: their number is a multiple of the catalog size, and the
\* record at (0-based) position i is for the catalog query at i mod
\* len(catalog).
C6_WholePasses ==
    \A b \in Clusters : \A w \in Workers :
        wpc[b][w] = "returned" =>
            /\ Len(results[b][w]) % Len(queries) = 0
            /\ \A i \in 1..Len(results[b][w]) :
                   results[b][w][i].query = queries[((i - 1) % Len(queries)) + 1]

\* a worker has returned a pass whose first call lasted at least the whole
\* test duration: the deadline was crossed before the rest of the pass ran
C6_witness ==
    \E b \in Clusters : \E w \in Workers :
        /\ wpc[b][w] = "returned"
        /\ Len(queries) > 1
        /\ Len(results[b][w]) >= Len(queries)
        /\ results[b][w][1].success
        /\ results[b][w][1].latency >= TEST_DURATION * 1000

\* ---- C7
\* C7, for one worker: a step in which its backend call ends in a failure appends
\* exactly one record, for the query that was called, with success = FALSE
\* and an error message; the worker then is at the next catalog query of
\* the same pass, or at the deadline check after the last query: the query
\* is not run again and the worker has not stopped.
C7_FailureStep(b, w) ==
    LET old == results[b][w]
        new == results'[b][w]
    IN  (wpc[b][w] = "call" /\ new # old /\ ~new[Len(new)].success) =>
            /\ Len(new) = Len(old) + 1
            /\ SubSeq(new, 1, Len(old)) = old
            /\ new[Len(new)].query = queries[idx[b][w]]
            /\ "error" \in DOMAIN new[Len(new)]
            /\ "latency" \notin DOMAIN new[Len(new)]
            /\ IF idx[b][w] < Len(queries)
               THEN wpc'[b][w] = "query" /\ idx'[b][w] = idx[b][w] + 1
               ELSE wpc'[b][w] = "check"

\* C7: every step of every worker that ends a backend call in a failure
\* records it once and goes on with the next query (C7_FailureStep).
C7_FailureRecordedOnceAndContinue ==
    [][\A b \in Clusters : \A w \in Workers : C7_FailureStep(b, w)]_vars

\* a worker ran the next query of the pass after a failed one
C7_witness ==
    \E b \in Clusters : \E w \in Workers :
        /\ Len(results[b][w]) >= 2
        /\ ~results[b][w][1].success
        /\ results[b][w][2].query = queries[2]

\* ---- C8
\* every worker of the run of backend b returned and was collected
RunMerged(b) == collected[b] = Workers /\ \A w \in Workers : wpc[b][w] = "returned"

\* C8: when all workers of a run returned normally, whatever the order of their
\* completion, the merged collection holds each worker's records exactly
\* once: every record value, and every query name, occurs in it as often as
\* in the workers' lists together; and the total_requests that
\* calculate_stats reports for a query is that number.
C8_MergeKeepsEveryRecordOnce ==
    \A b \in Clusters :
        RunMerged(b) =>
            /\ \A i \in 1..Len(ResultsOf(b)) :
                   CountOf(ResultsOf(b), LAMBDA r : r = ResultsOf(b)[i])
                       = WorkersCount(b, LAMBDA r : r = ResultsOf(b)[i])
            /\ \A q \in Range(queries) :
                   /\ CountOf(ResultsOf(b), LAMBDA r : r.query = q)
                          = WorkersCount(b, LAMBDA r : r.query = q)
                   /\ (StatsComputed /\ q \in DOMAIN StatsOf(b)) =>
                          StatsOf(b)[q].total_requests
                              = WorkersCount(b, LAMBDA r : r.query = q)

\* two workers each produced a record for the same query, one of them a
\* failure, and the statistics count both
C8_witness ==
    /\ StatsComputed
    /\ NUM_CLIENTS >= 2
    /\ RunMerged("Elasticsearch")
    /\ \A w \in Workers : Len(results["Elasticsearch"][w]) >= Len(queries)
    /\ queries[1] \in DOMAIN elasticsearch_stats
    /\ elasticsearch_stats[queries[1]].total_requests >= 2
    /\ elasticsearch_stats[queries[1]].successful_requests = 1

\* ---- C9
\* C9: the two runs do not overlap: while any OpenSearch worker has been
\* submitted (so before it starts, and before any OpenSearch query is
\* executed) every Elasticsearch worker has returned and its records have
\* been collected.
C9_RunsDoNotOverlap ==
    (\E w \in Workers : wpc["OpenSearch"][w] # "unsubmitted") =>
        /\ \A w \in Workers : wpc["Elasticsearch"][w] = "returned"
        /\ collected["Elasticsearch"] = Workers
        /\ Len(elasticsearch_results)
               = WorkersCount("Elasticsearch", LAMBDA r : TRUE)

\* an OpenSearch query is being executed after an Elasticsearch run that
\* produced records
C9_witness ==
    /\ \E w \in Workers : wpc["OpenSearch"][w] = "call"
    /\ elasticsearch_results # << >>

\* ---- C10
\* the records of backend b for query q
RecordsFor(b, q) ==
    SelectSeq(ResultsOf(b), LAMBDA r : r.cluster = b /\ r.query = q)

\* C10: for every entry calculate_stats emits, the error rate lies in [0, 100],
\* and it is 0 exactly when every record of that backend and query
\* succeeded.
C10_ErrorRateRange ==
    StatsComputed =>
        \A b \in Clusters : \A q \in DOMAIN StatsOf(b) :
            LET e == StatsOf(b)[q].error_rate
            IN  /\ e[2] > 0
                /\ 0 <= e[1]
                /\ e[1] <= 100 * e[2]
                /\ (e[1] = 0) <=>
                       (\A i \in 1..Len(RecordsFor(b, q)) : RecordsFor(b, q)[i].success)

\* an emitted entry with an error rate strictly between 0 and 100
C10_witness ==
    /\ StatsComputed
    /\ \E b \in Clusters : \E q \in DOMAIN StatsOf(b) :
           /\ StatsOf(b)[q].error_rate[1] > 0
           /\ StatsOf(b)[q].error_rate[1] < 100 * StatsOf(b)[q].error_rate[2]

\* ---- C11
\* the latencies of the successful records of query q in rs, as recorded
SuccessLatencies(rs, q) ==
    Latencies(SelectSeq(rs, LAMBDA r : r.query = q /\ r.success))

\* C11: for every query with a non-empty collection of successful latencies,
\* the statistics calculate_stats emits satisfy
\* min_latency <= median <= p95_latency <= p99_latency <= max_latency, the
\* median being the element at index floor(len/2) of the sorted latencies, and
\* p99_latency = max_latency whenever there are at most 100 successful samples.
C11_PercentilesOrdered ==
    pc = StatsDone =>
        \A q \in Range(queries) :
            LET latencies == SuccessLatencies(elasticsearch_results, q)
                len == Len(latencies)
                median == Sorted(latencies)[(len \div 2) + 1]
                e == elasticsearch_stats[q]
            IN  len >= 1 =>
                    /\ q \in DOMAIN elasticsearch_stats
                    /\ e.min_latency <= median
                    /\ median <= e.p95_latency
                    /\ e.p95_latency <= e.p99_latency
                    /\ e.p99_latency <= e.max_latency
                    /\ len <= 100 => e.p99_latency = e.max_latency

\* statistics of exactly 100 successful samples of which one is the slowest:
\* p95 is below p99, and p99 is the maximum
C11_witness ==
    /\ pc = StatsDone
    /\ Len(SuccessLatencies(elasticsearch_results, queries[1])) = 100
    /\ queries[1] \in DOMAIN elasticsearch_stats
    /\ elasticsearch_stats[queries[1]].min_latency
           < elasticsearch_stats[queries[1]].max_latency
    /\ elasticsearch_stats[queries[1]].p95_latency
           < elasticsearch_stats[queries[1]].p99_latency
    /\ elasticsearch_stats[queries[1]].p99_latency
           = elasticsearch_stats[queries[1]].max_latency

\* ---- C12
\* The quotient len(successful_results) / TEST_DURATION is a Python float,
\* an IEEE 754 double of DoubleBits binary digits.  A double above 0 is
\* << hi, lo, e >> of value (hi * LoUnit + lo) * 2^e, hi holding the upper
\* digits, the first of them 1, and lo the lower ones.  The operators serve
\* ints below 2^27 and divisors and factors below 16.
DoubleBits == 53

LoUnit == 2 ^ (DoubleBits \div 2)

HiUnit == 2 ^ (DoubleBits - (DoubleBits \div 2) - 1)

\* the next double above x, and the next below
DoubleSucc(x) ==
    IF x[2] + 1 < LoUnit THEN << x[1], x[2] + 1, x[3] >>
    ELSE IF x[1] + 1 < 2 * HiUnit THEN << x[1] + 1, 0, x[3] >>
    ELSE << HiUnit, 0, x[3] + 1 >>

DoublePred(x) ==
    IF x[2] > 0 THEN << x[1], x[2] - 1, x[3] >>
    ELSE IF x[1] > HiUnit THEN << x[1] - 1, LoUnit - 1, x[3] >>
    ELSE << 2 * HiUnit - 1, LoUnit - 1, x[3] - 1 >>

\* round to nearest, ties to even: twice the discarded part is compared
\* with the unit of the last digit kept
RoundDouble(x, twice, unit) ==
    IF twice > unit \/ (twice = unit /\ x[2] % 2 = 1) THEN DoubleSucc(x) ELSE x

\* n / d of two ints n >= 1, d >= 1: the double nearest to the quotient,
\* by long division, the upper digits first
DoubleDiv(n, d) ==
    LET t == CHOOSE k \in 0..DoubleBits : (n * 2^k) \div d >= HiUnit
        hi == (n * 2^t) \div d
        r == (n * 2^t) % d
        lo == (r * LoUnit) \div d
        rest == (r * LoUnit) % d
    IN  RoundDouble(<< hi, lo, 0 - t - (DoubleBits \div 2) >>, 2 * rest, d)

\* float(n) of an int n >= 1
DoubleOfInt(n) == DoubleDiv(n, 1)

\* x * k of a float x and an int k >= 1: the double nearest to the product
DoubleTimesInt(x, k) ==
    LET low == x[2] * k
        high == x[1] * k + (low \div LoUnit)
        j == CHOOSE i \in 0..4 : high \div 2^i < 2 * HiUnit
        below == (high % 2^j) * LoUnit + (low % LoUnit)
    IN  RoundDouble(<< high \div 2^j, below \div 2^j, x[3] + j >>,
                    2 * (below % 2^j), 2^j)

\* requests_per_second as the float the statistics hold
ThroughputDouble(e) == DoubleDiv(e.requests_per_second[1], e.requests_per_second[2])

\* the statistics of the successful records of rs alone
StatsOfSuccesses(rs) ==
    calculate_stats(SelectSeq(rs, LAMBDA r : r.success), "Elasticsearch")

\* requests_per_second of query q is successes / duration, whatever the
\* failures of q
ThroughputOfSuccesses(q) ==
    LET e == elasticsearch_stats[q]
        successes == Len(SuccessLatencies(elasticsearch_results, q))
        alone == StatsOfSuccesses(elasticsearch_results)
    IN  /\ e.successful_requests = successes
        /\ e.requests_per_second[1] * TEST_DURATION
               = successes * e.requests_per_second[2]
        /\ q \in DOMAIN alone
        /\ alone[q].requests_per_second = e.requests_per_second

\* C12: requests_per_second of a query is the number of its successful
\* records divided by the test duration, the same with and without the
\* failed records of the query; the float requests_per_second times the
\* test duration is the float of successful_requests or one of the two
\* floats next to it.
C12_ThroughputOfSuccesses ==
    pc = StatsDone =>
        \A q \in DOMAIN elasticsearch_stats :
            /\ ThroughputOfSuccesses(q)
            /\ DoubleTimesInt(ThroughputDouble(elasticsearch_stats[q]), TEST_DURATION)
                   \in { DoubleOfInt(elasticsearch_stats[q].successful_requests),
                         DoubleSucc(DoubleOfInt(elasticsearch_stats[q].successful_requests)),
                         DoublePred(DoubleOfInt(elasticsearch_stats[q].successful_requests)) }

\* statistics of 29 successes and a failure collected in 7 seconds: the
\* throughput is that of the successes, and its product with the duration is
\* not the float 29.0
C12_witness ==
    /\ pc = StatsDone
    /\ TEST_DURATION = 7
    /\ Len(elasticsearch_results) = 30
    /\ queries[1] \in DOMAIN elasticsearch_stats
    /\ elasticsearch_stats[queries[1]].successful_requests = 29
    /\ ThroughputOfSuccesses(queries[1])
    /\ DoubleTimesInt(ThroughputDouble(elasticsearch_stats[queries[1]]), 7)
           = DoubleSucc(DoubleOfInt(29))

\* C12 as stated: requests_per_second is successes / duration whatever the
\* failures, and requests_per_second times the test duration equals
\* successful_requests.
C12_ThroughputTimesDuration ==
    pc = StatsDone =>
        \A q \in DOMAIN elasticsearch_stats :
            /\ ThroughputOfSuccesses(q)
            /\ DoubleTimesInt(ThroughputDouble(elasticsearch_stats[q]), TEST_DURATION)
                   = DoubleOfInt(elasticsearch_stats[q].successful_requests)

\* ---- C13
\* the records of the workers 1..n of backend b, merged in the order of
\* submission, and in the opposite order
RECURSIVE MergedInOrder(_, _)
MergedInOrder(b, n) ==
    IF n = 0 THEN << >> ELSE MergedInOrder(b, n - 1) \o results[b][n]

RECURSIVE MergedInReverse(_, _)
MergedInReverse(b, n) ==
    IF n = 0 THEN << >> ELSE results[b][n] \o MergedInReverse(b, n - 1)

C14_ReportCompletes ==
    pc[1] = "report" => pc = << "report", "written" >>

\* ---- C15 (the claim as stated; the code violates it)
\* the value written on the row of `cluster` for the metric
RowValue(metric, cluster) ==
    report[CHOOSE i \in 1..Len(report) :
               report[i].metric = metric /\ report[i].cluster = cluster].value

\* C15: the "Total Requests" summary row of a backend shows the number of
\* raw outcome records collected for that backend, whatever the mix of
\* successes and failures per query.
C15_TotalRequestsCountsEveryRecord ==
    ReportWritten =>
        /\ RowValue(<< "", "Total Requests" >>, "Elasticsearch")
               = Len(artifact.raw_results.elasticsearch)
        /\ RowValue(<< "", "Total Requests" >>, "OpenSearch")
               = Len(artifact.raw_results.opensearch)

\* ---- C16
\* C16: a query name is a key of the map calculate_stats returned for a
\* backend if and only if the backend's records hold a successful record of
\* that query; every entry has successful_requests >= 1 and
\* total_requests >= 1 and carries all latency fields, and the divisors of
\* its quotients (the two counts, and the duration) are not 0.
C16_EntryIffSuccess ==
    StatsComputed =>
        \A b \in Clusters : \A q \in Range(queries) :
            /\ q \in DOMAIN StatsOf(b)
                   <=> \E i \in 1..Len(ResultsOf(b)) :
                           /\ ResultsOf(b)[i].cluster = b
                           /\ ResultsOf(b)[i].query = q
                           /\ ResultsOf(b)[i].success
            /\ q \in DOMAIN StatsOf(b) =>
                   /\ StatsOf(b)[q].successful_requests >= 1
                   /\ StatsOf(b)[q].total_requests >= StatsOf(b)[q].successful_requests
                   /\ StatsOf(b)[q].successful_requests
                          = Len(SuccessLatencies(ResultsOf(b), q))
                   /\ StatsOf(b)[q].total_requests = Len(RecordsFor(b, q))
                   /\ LatencyKeys \subseteq DOMAIN StatsOf(b)[q]
                   /\ TEST_DURATION # 0

\* statistics of a backend with a query that succeeded once and failed once,
\* which has an entry, and a query that only failed, which has none
C16_witness ==
    /\ StatsComputed
    /\ DOMAIN elasticsearch_stats = {queries[1]}
    /\ elasticsearch_stats[queries[1]].total_requests = 2
    /\ elasticsearch_stats[queries[1]].successful_requests = 1
    /\ Len(RecordsFor("Elasticsearch", queries[2])) = 2

\* ---- C17
\* what a step may do to worker w of backend b
C17_Step(b, w) ==
    LET elapsed == now - start_time[b][w]
    IN  /\ (wpc[b][w] = "check" /\ wpc'[b][w] = "query") =>
               /\ elapsed < TEST_DURATION
               /\ idx'[b][w] = 1
        /\ (wpc[b][w] = "check" /\ elapsed >= TEST_DURATION) =>
               wpc'[b][w] \in {"check", "returned"}
        /\ (wpc[b][w] # "returned" /\ wpc'[b][w] = "returned") =>
               /\ wpc[b][w] = "check"
               /\ elapsed >= TEST_DURATION
        /\ (wpc[b][w] \in {"query", "call"} /\ wpc'[b][w] = "check") =>
               /\ idx[b][w] = Len(queries)
               /\ Len(results'[b][w]) % Len(queries) = 0

\* C17: a worker compares the clock with the deadline only between catalog
\* passes: a pass starts, at the first query of the catalog, only from the
\* while condition and only at an elapsed time below the duration; once the
\* elapsed time has reached the duration the while condition starts no pass
\* and the worker returns; a worker leaves only from the while condition, and
\* comes back to it only after the last query of the pass.  (The last query
\* therefore ends within the pass that began before the deadline.)
C17_DeadlineBetweenPasses ==
    [][\A b \in Clusters : \A w \in Workers : C17_Step(b, w)]_vars

\* the last query of a pass is running when the deadline has passed
C17_witness ==
    \E b \in Clusters : \E w \in Workers :
        /\ TEST_DURATION >= 1
        /\ wpc[b][w] = "call"
        /\ idx[b][w] = Len(queries)
        /\ now - start_time[b][w] >= TEST_DURATION

\* ---- C18
ArtifactWritten == pc = << "main", "saved" >> /\ artifact # EmptyMap

\* a call has left run_query otherwise than by returning a record
CallRaised == \E b \in Clusters : \E w \in Workers : wpc[b][w] = "raised"

\* C18: when every backend call returns (a result or an error record) and
\* the clock keeps advancing, the artifact is eventually written, with every
\* worker of both runs returned and collected; and for as long as a backend
\* call is outstanding its worker has not terminated, has not been collected,
\* and the main script is still inside the run of that backend: a call that
\* never returns keeps the run from completing.
C18_RunsTerminate ==
    /\ <>(CallRaised \/ (ArtifactWritten /\ \A b \in Clusters : RunMerged(b)))
    /\ [](\A b \in Clusters : \A w \in Workers :
              wpc[b][w] = "call" =>
                  /\ pc \in { << b, "collect" >>, << b, "unwind" >> }
                  /\ w \notin collected[b]
                  /\ ~ArtifactWritten)

\* the artifact written after both runs of two workers, every worker
\* having made calls that returned
C18_witness ==
    /\ ArtifactWritten
    /\ NUM_CLIENTS = 2
    /\ \A b \in Clusters : RunMerged(b)
    /\ \A b \in Clusters : \A w \in Workers : Len(results[b][w]) = Len(queries)

\* ---- C19
\* C19: for every count len >= 1 of successful samples, the percentile
\* indexes int(len * 0.95) and int(len * 0.99) lie in 0..len-1, and the
\* p95_latency and p99_latency that calculate_stats emits are the elements of
\* the sorted latencies at these indexes clamped to len-1.
C19_PercentileIndexInRange ==
    \A q \in Range(queries) :
        LET latencies == SuccessLatencies(elasticsearch_results, q)
            len == Len(latencies)
            sorted == Sorted(latencies)
            Clamped(i) == IF i > len - 1 THEN len - 1 ELSE i
        IN  len >= 1 =>
                /\ PercentileIndex(len, 95) \in 0..(len - 1)
                /\ PercentileIndex(len, 99) \in 0..(len - 1)
                /\ (pc = StatsDone /\ q \in DOMAIN elasticsearch_stats) =>
                       /\ elasticsearch_stats[q].p95_latency
                              = sorted[Clamped((len * 95) \div 100) + 1]
                       /\ elasticsearch_stats[q].p99_latency
                              = sorted[Clamped((len * 99) \div 100) + 1]

\* statistics of 100 or more successful samples, among them both latencies,
\* with p95 read at the index just below the slower samples
C19_witness ==
    /\ pc = StatsDone
    /\ queries[1] \in DOMAIN elasticsearch_stats
    /\ Len(SuccessLatencies(elasticsearch_results, queries[1])) >= 100
    /\ elasticsearch_stats[queries[1]].p95_latency
           < elasticsearch_stats[queries[1]].p99_latency
    /\ elasticsearch_stats[queries[1]].total_requests
           > elasticsearch_stats[queries[1]].successful_requests

====
